---- MODULE Spec2Model ----
(***************************************************************************)
(* Model of samples/demangling/a.cpp: main() prompts, reads one line,      *)
(* folds the cubes of its bytes into an unsigned 64-bit checksum, prints   *)
(* it, builds ten copies of the line and prints each copy with a running   *)
(* counter appended by a transform view.                                   *)
(*                                                                         *)
(* A std::string is a sequence of chunks.  A chunk [b, long] stands for    *)
(* the byte b once (long = FALSE) or for LongRun consecutive copies of b   *)
(* (long = TRUE); the latter lets the model hold lines long enough for the *)
(* 64-bit accumulator to wrap.  Standard output is the flat sequence of    *)
(* chunks written to std::cout.                                            *)
(*                                                                         *)
(* An unsigned long long is four 16-bit limbs, least significant first,    *)
(* so that every intermediate value stays inside TLC's integers while the  *)
(* arithmetic keeps its 64-bit width.                                      *)
(***************************************************************************)
EXTENDS Integers, Sequences, FiniteSets, TLC

\* ------------------------------------------------------------------------
\* Bounds of the model
\* ------------------------------------------------------------------------

\* longest input line, in chunks
MaxLen == 2

\* how many times the program is invoked on the same standard input
MaxRuns == 2

\* how many times the transform view is traversed under SpecReplay
MaxPasses == 2

\* ------------------------------------------------------------------------
\* unsigned long long int: 64 bits as four limbs of 16 bits
\* ------------------------------------------------------------------------

LimbBase == 65536

Zero64 == <<0, 0, 0, 0>>

Max64 == <<LimbBase - 1, LimbBase - 1, LimbBase - 1, LimbBase - 1>>

\* conversion of a non-negative value below 2^31 to unsigned long long
ToU64(x) == <<x % LimbBase, x \div LimbBase, 0, 0>>

\* a + x that stops at 2^64 - 1 instead of wrapping
Add64Saturating(a, x) ==
  LET s1 == a[1] + x[1]
      s2 == a[2] + x[2] + (s1 \div LimbBase)
      s3 == a[3] + x[3] + (s2 \div LimbBase)
      s4 == a[4] + x[4] + (s3 \div LimbBase)
  IN  IF s4 >= LimbBase THEN Max64
      ELSE <<s1 % LimbBase, s2 % LimbBase, s3 % LimbBase, s4 % LimbBase>>

\* a + x on unsigned long long: the carry out of the top limb is dropped
Add64(a, x) ==
  LET s1 == a[1] + x[1]
      s2 == a[2] + x[2] + (s1 \div LimbBase)
      s3 == a[3] + x[3] + (s2 \div LimbBase)
      s4 == a[4] + x[4] + (s3 \div LimbBase)
  IN  <<s1 % LimbBase, s2 % LimbBase, s3 % LimbBase, s4 % LimbBase>>

\* a * k on unsigned long long, for a multiplier k below 2^15
Mul64(a, k) ==
  LET p1 == a[1] * k
      p2 == a[2] * k + (p1 \div LimbBase)
      p3 == a[3] * k + (p2 \div LimbBase)
      p4 == a[4] * k + (p3 \div LimbBase)
  IN  <<p1 % LimbBase, p2 % LimbBase, p3 % LimbBase, p4 % LimbBase>>

\* a / 10 and a % 10 on unsigned long long (long division from the top limb)
DivMod10(a) ==
  LET t4 == a[4]
      t3 == (t4 % 10) * LimbBase + a[3]
      t2 == (t3 % 10) * LimbBase + a[2]
      t1 == (t2 % 10) * LimbBase + a[1]
  IN  [q |-> <<t1 \div 10, t2 \div 10, t3 \div 10, t4 \div 10>>, r |-> t1 % 10]

\* ------------------------------------------------------------------------
\* Strings
\* ------------------------------------------------------------------------

\* number of characters one long chunk stands for:
\* 1112497852181 = floor((2^64 - 1) / 255^3), as an unsigned long long
LongRun == <<3861, 1546, 259, 0>>

Chr(b) == [b |-> b, long |-> FALSE]

Run(b) == [b |-> b, long |-> TRUE]

\* a string literal, given by its character codes
Text(codes) == [n \in 1 .. Len(codes) |-> Chr(codes[n])]

NewLine == 10

\* the prompt written as a line of its own
PromptTextLine ==
  Text(<<69, 110, 116, 101, 114, 32, 97, 32, 115, 116, 114, 105, 110, 103, 58, 32, NewLine>>)

\* "Enter a string: "
PromptText == Text(<<69, 110, 116, 101, 114, 32, 97, 32, 115, 116, 114, 105, 110, 103, 58, 32>>)

\* "Result: "
ResultText == Text(<<82, 101, 115, 117, 108, 116, 58, 32>>)

\* "Appended strings:\n"
HeaderText ==
  Text(<<65, 112, 112, 101, 110, 100, 101, 100, 32, 115, 116, 114, 105, 110, 103, 115, 58, NewLine>>)

\* std::endl
Endl == Text(<<NewLine>>)

DigitZero == 48

\* operator<<(unsigned long long): the decimal digits, most significant
\* first, produced from the least significant one
RECURSIVE Digits64(_, _)
Digits64(a, acc) ==
  IF a = Zero64 THEN acc
  ELSE LET d == DivMod10(a) IN Digits64(d.q, <<Chr(DigitZero + d.r)>> \o acc)

Format64(a) == IF a = Zero64 THEN <<Chr(DigitZero)>> ELSE Digits64(a, <<>>)

\* std::to_string(int), for the non-negative values the counter takes
RECURSIVE DigitsInt(_)
DigitsInt(n) ==
  IF n = 0 THEN <<>> ELSE Append(DigitsInt(n \div 10), Chr(DigitZero + (n % 10)))

to_string(n) == IF n = 0 THEN <<Chr(DigitZero)>> ELSE DigitsInt(n)

\* ------------------------------------------------------------------------
\* The program
\* ------------------------------------------------------------------------

\* a vector one element short
NumStringsShort == 10 - 1

\* std::vector<std::string> strings(10, inputStr)
NumStrings == 10

\* static int i = 1
CounterStart == 1

\* the characters the modelled input lines are made of: '1', 'A', 0xFF and a
\* long run of 0xFF; a line never holds the newline that ends it
Alphabet == {Chr(49), Chr(65), Chr(255), Run(255)}

InputLines == UNION {[1 .. m -> Alphabet] : m \in 0 .. MaxLen}

\* standard input: the bytes of the first line, then a newline (eof = FALSE)
\* or the end of the stream (eof = TRUE)
StdinContents == [line : InputLines, eof : BOOLEAN]

VARIABLES
  stdin,       \* what standard input holds
  run,         \* number of the current invocation of the program
  prevOut,     \* standard output of the previous invocation
  pc,          \* position of main()
  cinState,    \* iostate flags of std::cin
  inputStr,    \* std::string inputStr
  result,      \* unsigned long long int result
  it,          \* characters of inputStr the range-for has consumed (in chunks)
  strings,     \* std::vector<std::string> strings
  i,           \* static int i of the lambda
  pos,         \* elements of appendedStrings the range-for has consumed
  pass,        \* number of the current traversal of appendedStrings
  out,         \* what has been written to std::cout
  exitStatus   \* <<>> while main() runs, <<status>> once it has returned

vars ==
  <<stdin, run, prevOut, pc, cinState, inputStr, result, it, strings, i, pos,
    pass, out, exitStatus>>

\* char c, as the signed char of the build (g++ on Linux)
CharOf(b) == IF b >= 128 THEN b - 256 ELSE b

\* static_cast<unsigned char>(c)
UnsignedChar(c) == c % 256

\* pow(x, 3): exact in double for |x| <= 255
Pow3(x) == x * x * x

\* static_cast<unsigned long long int>(pow(c, 3)) without the cast to unsigned
\* char: a negative double converts to its two's complement
CubeOfSigned(b) ==
  LET c == CharOf(b)
  IN  IF c >= 0 THEN ToU64(Pow3(c))
      ELSE Add64(Add64(Max64, ToU64(1)), Add64(Max64, ToU64(LimbBase * 256 - Pow3(-c) + 1)))

\* static_cast<unsigned long long int>(pow(static_cast<unsigned char>(c), 3))
\* for the character stored as byte b
CubeOf(b) == ToU64(Pow3(UnsignedChar(CharOf(b))))

\* the body of the checksum loop on one chunk: once for a single character,
\* LongRun times for a long chunk (LongRun additions of the same cube)
Accumulate(res, ch) ==
  IF ch.long
  THEN LET u == UnsignedChar(CharOf(ch.b))
       IN  Add64(res, Mul64(Mul64(Mul64(LongRun, u), u), u))
  ELSE Add64(res, CubeOf(ch.b))

\* the lambda with ++i in place of i++
AppendCounterPreIncrement(str, ctr) == [ret |-> str \o to_string(ctr + 1), i |-> ctr + 1]

\* the lambda with a counter that is not static
AppendCounterLocal(str, ctr) == [ret |-> str \o to_string(CounterStart), i |-> ctr]

\* the lambda: str += std::to_string(i++); return str;
AppendCounter(str, ctr) == [ret |-> str \o to_string(ctr), i |-> ctr + 1]

\* the lambda with its parameter taken by reference
TransformDerefByRef(strs, k, ctr) ==
  LET r == AppendCounter(strs[k], ctr)
  IN  [ret |-> r.ret, i |-> r.i, strings |-> [strs EXCEPT ![k] = r.ret]]

\* *iterator of the transform view at element k: the lambda is called on a
\* copy of strings[k] (parameter by value), the vector is not written
TransformDeref(strs, k, ctr) ==
  LET r == AppendCounter(strs[k], ctr)
  IN  [ret |-> r.ret, i |-> r.i, strings |-> strs]

\* std::getline(std::cin, inputStr): the string is erased, the characters up
\* to the newline are stored; at the end of the stream eofbit is set, and
\* failbit as well when nothing was extracted
GetLineOf(in) ==
  [str |-> in.line,
   flags |-> IF ~in.eof THEN {}
             ELSE IF in.line = <<>> THEN {"eofbit", "failbit"} ELSE {"eofbit"}]

Init ==
  /\ stdin \in StdinContents
  /\ run = 1
  /\ prevOut = <<>>
  /\ pc = "prompt"
  /\ cinState = {}
  /\ inputStr = <<>>
  /\ result = Zero64
  /\ it = 0
  /\ strings = <<>>
  /\ i = CounterStart
  /\ pos = 0
  /\ pass = 1
  /\ out = <<>>
  /\ exitStatus = <<>>

\* std::cout << "Enter a string: ";
Prompt ==
  /\ pc = "prompt"
  /\ out' = out \o PromptText
  /\ pc' = "getline"
  /\ UNCHANGED <<stdin, run, prevOut, cinState, inputStr, result, it, strings,
                 i, pos, pass, exitStatus>>

\* std::getline followed by a return of 1 when the stream has failed
GetLineChecked ==
  /\ pc = "getline"
  /\ inputStr' = GetLineOf(stdin).str
  /\ cinState' = GetLineOf(stdin).flags
  /\ result' = Zero64
  /\ it' = 0
  /\ pc' = IF "failbit" \in GetLineOf(stdin).flags THEN "done" ELSE "fold"
  /\ exitStatus' = IF "failbit" \in GetLineOf(stdin).flags THEN <<1>> ELSE exitStatus
  /\ UNCHANGED <<stdin, run, prevOut, strings, i, pos, pass, out>>

\* std::getline(std::cin, inputStr); unsigned long long int result = 0;
GetLine ==
  /\ pc = "getline"
  /\ inputStr' = GetLineOf(stdin).str
  /\ cinState' = GetLineOf(stdin).flags
  /\ result' = Zero64
  /\ it' = 0
  /\ pc' = "fold"
  /\ UNCHANGED <<stdin, run, prevOut, strings, i, pos, pass, out, exitStatus>>

\* one step of for (char c : inputStr) { result += ... }
Fold ==
  /\ pc = "fold"
  /\ it < Len(inputStr)
  /\ result' = Accumulate(result, inputStr[it + 1])
  /\ it' = it + 1
  /\ UNCHANGED <<stdin, run, prevOut, pc, cinState, inputStr, strings, i, pos,
                 pass, out, exitStatus>>

\* the result printed without waiting for the end of the loop
PrintResultEarly ==
  /\ pc = "fold"
  /\ out' = out \o ResultText \o Format64(result) \o Endl
  /\ pc' = "build"
  /\ UNCHANGED <<stdin, run, prevOut, cinState, inputStr, result, it, strings,
                 i, pos, pass, exitStatus>>

\* std::cout << "Result: " << result << std::endl;
PrintResult ==
  /\ pc = "fold"
  /\ it = Len(inputStr)
  /\ out' = out \o ResultText \o Format64(result) \o Endl
  /\ pc' = "build"
  /\ UNCHANGED <<stdin, run, prevOut, cinState, inputStr, result, it, strings,
                 i, pos, pass, exitStatus>>

\* std::vector<std::string> strings(10, inputStr); auto appendedStrings = ...
Build ==
  /\ pc = "build"
  /\ strings' = [k \in 1 .. NumStrings |-> inputStr]
  /\ pc' = "header"
  /\ UNCHANGED <<stdin, run, prevOut, cinState, inputStr, result, it, i, pos,
                 pass, out, exitStatus>>

\* std::cout << "Appended strings:\n"; and the begin() of the range-for
Header ==
  /\ pc = "header"
  /\ out' = out \o HeaderText
  /\ pos' = 0
  /\ pc' = "print"
  /\ UNCHANGED <<stdin, run, prevOut, cinState, inputStr, result, it, strings,
                 i, pass, exitStatus>>

\* one step of for (const auto& str : appendedStrings) std::cout << str << std::endl;
PrintString ==
  /\ pc = "print"
  /\ pos < Len(strings)
  /\ LET d == TransformDeref(strings, pos + 1, i)
     IN  /\ out' = out \o d.ret \o Endl
         /\ i' = d.i
         /\ strings' = d.strings
  /\ pos' = pos + 1
  /\ UNCHANGED <<stdin, run, prevOut, pc, cinState, inputStr, result, it, pass,
                 exitStatus>>

\* return 0;
Return ==
  /\ pc = "print"
  /\ pos = Len(strings)
  /\ pc' = "done"
  /\ exitStatus' = <<0>>
  /\ UNCHANGED <<stdin, run, prevOut, cinState, inputStr, result, it, strings,
                 i, pos, pass, out>>

\* a further invocation that would inherit the lambda's counter
InvokeKeepingCounter ==
  /\ pc = "done"
  /\ run < MaxRuns
  /\ run' = run + 1
  /\ prevOut' = out
  /\ pc' = "prompt"
  /\ cinState' = {}
  /\ inputStr' = <<>>
  /\ result' = Zero64
  /\ it' = 0
  /\ strings' = <<>>
  /\ pos' = 0
  /\ pass' = 1
  /\ out' = <<>>
  /\ exitStatus' = <<>>
  /\ UNCHANGED <<stdin, i>>

\* a further, independent invocation of the program on the same standard
\* input: a new process, whose objects and statics are initialised afresh
Invoke ==
  /\ pc = "done"
  /\ run < MaxRuns
  /\ run' = run + 1
  /\ prevOut' = out
  /\ pc' = "prompt"
  /\ cinState' = {}
  /\ inputStr' = <<>>
  /\ result' = Zero64
  /\ it' = 0
  /\ strings' = <<>>
  /\ i' = CounterStart
  /\ pos' = 0
  /\ pass' = 1
  /\ out' = <<>>
  /\ exitStatus' = <<>>
  /\ UNCHANGED stdin

Next ==
  \/ Prompt
  \/ GetLine
  \/ Fold
  \/ PrintResult
  \/ Build
  \/ Header
  \/ PrintString
  \/ Return
  \/ Invoke

Spec == Init /\ [][Next]_vars

\* a second range-for over appendedStrings once the first has ended; main()
\* does not do this, SpecReplay does it to observe the view a second time
Retraverse ==
  /\ pc = "print"
  /\ pos = Len(strings)
  /\ pass < MaxPasses
  /\ pass' = pass + 1
  /\ pos' = 0
  /\ UNCHANGED <<stdin, run, prevOut, pc, cinState, inputStr, result, it,
                 strings, i, out, exitStatus>>

NextReplay ==
  \/ Prompt
  \/ GetLine
  \/ Fold
  \/ PrintResult
  \/ Build
  \/ Header
  \/ PrintString
  \/ Retraverse
  \/ Return

SpecReplay == Init /\ [][NextReplay]_vars

\* ------------------------------------------------------------------------
\* Vocabulary of the properties
\* ------------------------------------------------------------------------

\* the input line
S == stdin.line

\* natural numbers of any size: limbs of 16 bits, least significant first,
\* without leading zero limbs
RECURSIVE Normal(_)
Normal(a) ==
  IF a # <<>> /\ a[Len(a)] = 0 THEN Normal(SubSeq(a, 1, Len(a) - 1)) ELSE a

LimbAt(a, n) == IF n <= Len(a) THEN a[n] ELSE 0

RECURSIVE NatAddFrom(_, _, _, _)
NatAddFrom(a, b, n, carry) ==
  IF n > Len(a) /\ n > Len(b)
  THEN IF carry = 0 THEN <<>> ELSE <<carry>>
  ELSE LET t == LimbAt(a, n) + LimbAt(b, n) + carry
       IN  <<t % LimbBase>> \o NatAddFrom(a, b, n + 1, t \div LimbBase)

NatAdd(a, b) == Normal(NatAddFrom(a, b, 1, 0))

RECURSIVE NatMulFrom(_, _, _, _)
NatMulFrom(a, k, n, carry) ==
  IF n > Len(a)
  THEN IF carry = 0 THEN <<>> ELSE <<carry>>
  ELSE LET t == a[n] * k + carry
       IN  <<t % LimbBase>> \o NatMulFrom(a, k, n + 1, t \div LimbBase)

\* a * k for a multiplier k below 2^15
NatMul(a, k) == Normal(NatMulFrom(a, k, 1, 0))

\* the sum, over every byte b of the line, of b^3, as a natural number
CubeTerm(ch) ==
  IF ch.long
  THEN NatMul(NatMul(NatMul(Normal(LongRun), ch.b), ch.b), ch.b)
  ELSE NatMul(NatMul(<<ch.b>>, ch.b), ch.b)

\* (the test on acc has each partial sum evaluated before the next step)
RECURSIVE SumFrom(_, _, _)
SumFrom(line, n, acc) ==
  IF n > Len(line) \/ Len(acc) < 0 THEN acc
  ELSE SumFrom(line, n + 1, NatAdd(acc, CubeTerm(line[n])))

SumOfCubes(line) == SumFrom(line, 1, <<>>)

\* a natural number modulo 2^64
Mod64(a) == Normal(SubSeq(a, 1, IF Len(a) < 4 THEN Len(a) ELSE 4))

IsDigit(ch) == ~ch.long /\ ch.b \in 48 .. 57

\* a decimal numeral: digits only, no leading zero unless it is "0"
IsNumeral(d) ==
  /\ d # <<>>
  /\ \A n \in 1 .. Len(d) : IsDigit(d[n])
  /\ Len(d) > 1 => d[1].b # 48

\* the natural number a sequence of decimal digits denotes
\* (the test on acc has each partial value evaluated before the next step)
RECURSIVE ValueFrom(_, _, _)
ValueFrom(d, n, acc) ==
  IF n > Len(d) \/ Len(acc) < 0 THEN acc
  ELSE ValueFrom(d, n + 1, NatAdd(NatMul(acc, 10), Normal(<<d[n].b - 48>>)))

ValueOf(d) == ValueFrom(d, 1, <<>>)

\* the decimal representation of k, for 0 <= k < 100
DecimalOf(k) ==
  IF k < 10 THEN <<Chr(48 + k)>> ELSE <<Chr(48 + (k \div 10)), Chr(48 + (k % 10))>>

\* the lines of a text: line n ends at the n-th newline
NewLinesOf(t) == {n \in 1 .. Len(t) : t[n] = Chr(10)}

NumLines(t) == Cardinality(NewLinesOf(t))

EndOfLine(t, n) ==
  LET nl == NewLinesOf(t)
  IN  IF n = 0 THEN 0 ELSE CHOOSE p \in nl : Cardinality({q \in nl : q <= p}) = n

LineOf(t, n) == SubSeq(t, EndOfLine(t, n - 1) + 1, EndOfLine(t, n) - 1)

\* what follows the last newline
Unfinished(t) == SubSeq(t, EndOfLine(t, NumLines(t)) + 1, Len(t))

StartsWith(t, p) == Len(t) >= Len(p) /\ SubSeq(t, 1, Len(p)) = p

After(t, p) == SubSeq(t, Len(p) + 1, Len(t))

\* the lines written after the header line, which is the second line
NumAnnotated(t) == IF NumLines(t) > 2 THEN NumLines(t) - 2 ELSE 0

Annotated(t, k) == LineOf(t, k + 2)

\* the text of "Enter a string: ", "Result: " and "Appended strings:"
EnterAString == [n \in 1 .. 16 |-> Chr(<<69, 110, 116, 101, 114, 32, 97, 32, 115, 116, 114, 105, 110, 103, 58, 32>>[n])]

ResultColon == [n \in 1 .. 8 |-> Chr(<<82, 101, 115, 117, 108, 116, 58, 32>>[n])]

AppendedStrings ==
  [n \in 1 .. 17 |->
     Chr(<<65, 112, 112, 101, 110, 100, 101, 100, 32, 115, 116, 114, 105, 110, 103, 115, 58>>[n])]

\* the numeral printed after `Result: ` on the first line
PrintedChecksum(t) == After(LineOf(t, 1), EnterAString \o ResultColon)

\* comparison of unsigned long long values
Less64(a, b) ==
  \E n \in 1 .. 4 : a[n] < b[n] /\ \A m \in (n + 1) .. 4 : a[m] = b[m]

Leq64(a, b) == a = b \/ Less64(a, b)

\* ------------------------------------------------------------------------
\* Properties
\* ------------------------------------------------------------------------

\* C1: the value printed after `Result: ` is the sum, over every byte b of
\* the input line taken as 0..255, of b^3, modulo 2^64: no byte is skipped or
\* sign-extended, and the sum wraps; for the line "A" it is 274625.
C1_ChecksumIsSumOfCubes ==
  NumLines(out) >= 1 =>
    /\ StartsWith(LineOf(out, 1), EnterAString \o ResultColon)
    /\ IsNumeral(PrintedChecksum(out))
    /\ ValueOf(PrintedChecksum(out)) = Mod64(SumOfCubes(S))
    /\ S = <<Chr(65)>> =>
         PrintedChecksum(out) = <<Chr(50), Chr(55), Chr(52), Chr(54), Chr(50), Chr(53)>>

\* C1 witness: the checksum of a line whose sum of cubes exceeds 2^64 has
\* been printed, and it is the wrapped value 14758634
C1_Witness ==
  /\ pc = "done"
  /\ S = <<Run(255), Chr(255)>>
  /\ PrintedChecksum(out) =
       <<Chr(49), Chr(52), Chr(55), Chr(53), Chr(56), Chr(54), Chr(51), Chr(52)>>

\* C2: in one run, the k-th string printed after the header is the input
\* line immediately followed by the decimal representation of k, and the
\* counter used for the k-th element is k.
C2_KthStringIsLinePlusK ==
  /\ NumAnnotated(out) <= NumStrings
  /\ \A k \in 1 .. NumAnnotated(out) : Annotated(out, k) = S \o DecimalOf(k)
  /\ pc = "print" => i = pos + 1 /\ NumAnnotated(out) = pos

\* C2 witness: the tenth string of the line "1A" has been printed as "1A10"
C2_Witness ==
  /\ pc = "print"
  /\ pos = 10
  /\ S = <<Chr(49), Chr(65)>>
  /\ Annotated(out, 10) = <<Chr(49), Chr(65), Chr(49), Chr(48)>>

\* C3 (as stated): standard output is the line `Result: <checksum>`, the
\* header line and ten lines, and nothing else; nothing is written before
\* `Result: `.
C3_Original ==
  /\ out # <<>> => StartsWith(out, ResultColon)
  /\ pc = "done" =>
       /\ NumLines(out) = 2 + NumStrings
       /\ Unfinished(out) = <<>>
       /\ IsNumeral(After(LineOf(out, 1), ResultColon))
       /\ LineOf(out, 2) = AppendedStrings

\* C3 (amended): standard output is the prompt `Enter a string: ` without a
\* newline, then `Result: <checksum>` on the same line, the header line and
\* ten lines, and nothing else; the first line is the prompt followed by
\* `Result: ` and the decimal numeral of the checksum.
C3_PromptThenTwoSegments ==
  /\ out # <<>> => StartsWith(out, EnterAString)
  /\ pc = "done" =>
       /\ NumLines(out) = 2 + NumStrings
       /\ Unfinished(out) = <<>>
       /\ StartsWith(LineOf(out, 1), EnterAString \o ResultColon)
       /\ IsNumeral(PrintedChecksum(out))
       /\ ValueOf(PrintedChecksum(out)) = Normal(result)
       /\ LineOf(out, 2) = AppendedStrings

\* C3 witness: a finished run on a non-empty line whose first output line is
\* the prompt followed by `Result: 274625`
C3_Witness ==
  /\ pc = "done"
  /\ NumLines(out) = 12
  /\ LineOf(out, 1) =
       EnterAString \o ResultColon
         \o <<Chr(50), Chr(55), Chr(52), Chr(54), Chr(50), Chr(53)>>

\* C4: when the program has finished, exactly ten lines follow the header,
\* whatever the input line; for the empty line they are "1" .. "10".
C4_TenLines ==
  pc = "done" =>
    /\ NumAnnotated(out) = 10
    /\ S = <<>> =>
         /\ \A k \in 1 .. 9 : Annotated(out, k) = <<Chr(48 + k)>>
         /\ Annotated(out, 10) = <<Chr(49), Chr(48)>>

\* C4 witness: a finished run on the empty line, with "10" as its last line
C4_Witness ==
  /\ pc = "done"
  /\ S = <<>>
  /\ LineOf(out, NumLines(out)) = <<Chr(49), Chr(48)>>

\* C5: within a run output only grows, one line at a time and in a fixed
\* order: the checksum line is completed only once the whole input line has
\* been folded in and before any annotated string, then the header, then the
\* annotated strings in position order 1, 2, .., 10, each written once.
C5_Step ==
  /\ run' = run => StartsWith(out', out)
  /\ NumLines(out') > NumLines(out) =>
       /\ NumLines(out') = NumLines(out) + 1
       /\ Unfinished(out') = <<>>
       /\ NumLines(out) = 0 =>
            /\ it = Len(inputStr)
            /\ inputStr = S
            /\ StartsWith(After(LineOf(out', 1), EnterAString), ResultColon)
       /\ NumLines(out) = 1 => LineOf(out', 2) = AppendedStrings
       /\ NumLines(out) >= 2 =>
            /\ NumLines(out) - 1 <= NumStrings
            /\ LineOf(out', NumLines(out') ) = S \o DecimalOf(NumLines(out) - 1)

C5_OutputOrder == [][C5_Step]_vars

\* C5 witness: all ten strings of a two-chunk line are out, the last after
\* the ninth
C5_Witness ==
  /\ pc = "print"
  /\ pos = 10
  /\ Len(S) = 2
  /\ Annotated(out, 9) = S \o <<Chr(57)>>
  /\ Annotated(out, 10) = S \o <<Chr(49), Chr(48)>>

\* C6: an empty line or an immediate end of the stream is no error: the
\* input is the empty string, the checksum printed is 0, the ten annotated
\* lines are produced and main() returns 0; no run ends with another status.
C6_EmptyInputIsNoError ==
  /\ pc \in {"prompt", "getline", "fold", "build", "header", "print", "done"}
  /\ exitStatus = IF pc = "done" THEN <<0>> ELSE <<>>
  /\ (S = <<>> /\ pc \notin {"prompt", "getline"}) => inputStr = <<>>
  /\ (S = <<>> /\ pc = "done") =>
       /\ LineOf(out, 1) = EnterAString \o ResultColon \o <<Chr(48)>>
       /\ NumAnnotated(out) = NumStrings

\* C6 witness: a run on an immediately ended stream has set failbit and
\* returned 0
C6_Witness ==
  /\ pc = "done"
  /\ stdin = [line |-> <<>>, eof |-> TRUE]
  /\ "failbit" \in cinState
  /\ exitStatus = <<0>>

FoldsOneChar == pc = "fold" /\ it < Len(inputStr) /\ ~inputStr[it + 1].long /\ it' = it + 1

\* 2^64 - 1 - b^3
Max64MinusCube(b) ==
  <<LimbBase - 1 - ((b * b * b) % LimbBase), LimbBase - 1 - ((b * b * b) \div LimbBase),
    LimbBase - 1, LimbBase - 1>>

\* C8 (as stated): the accumulator never decreases when a character is
\* folded in.
C8_Original == [][FoldsOneChar => Leq64(result, result')]_vars

\* C8 (amended): folding in a character of byte value b leaves the
\* accumulator greater than or equal to its previous value exactly when the
\* previous value is at most 2^64 - 1 - b^3; otherwise the sum wraps and the
\* accumulator decreases.
C8_MonotoneUnlessWrap ==
  [][FoldsOneChar =>
       (Leq64(result, result') <=> Leq64(result, Max64MinusCube(inputStr[it + 1].b)))]_vars

\* C8 witness: after a long run of 0xFF the accumulator was 2^64 - 1822741,
\* and one more 0xFF has wrapped it to 14758634
C8_Witness ==
  /\ pc = "fold"
  /\ it = 2
  /\ inputStr = <<Run(255), Chr(255)>>
  /\ result = <<13034, 225, 0, 0>>

\* C9: the counter advances once per element produced and is never reset:
\* after one traversal it is 11, and a second traversal of the view in the
\* same run yields the line followed by 11, 12, .., 20.
C9_SecondTraversalContinues ==
  /\ pc = "print" =>
       /\ i = 1 + (pass - 1) * NumStrings + pos
       /\ NumAnnotated(out) = (pass - 1) * NumStrings + pos
  /\ (pc = "print" /\ pass = 1 /\ pos = NumStrings) => i = 11
  /\ \A k \in 1 .. NumAnnotated(out) : Annotated(out, k) = S \o DecimalOf(k)

\* C9 witness: a second traversal has ended with the counter at 21 and the
\* line followed by 20 as the twentieth string
C9_Witness ==
  /\ pc = "print"
  /\ pass = 2
  /\ pos = 10
  /\ i = 21
  /\ S # <<>>
  /\ Annotated(out, 11) = S \o <<Chr(49), Chr(49)>>
  /\ Annotated(out, 20) = S \o <<Chr(50), Chr(48)>>

\* C10: the traversal leaves the collection as it was built: ten elements,
\* each equal to the input line, and the input line itself is not altered.
C10_CollectionUnchanged ==
  /\ pc \in {"fold", "build", "header", "print", "done"} => inputStr = S
  /\ pc \in {"header", "print", "done"} =>
       /\ Len(strings) = 10
       /\ \A k \in 1 .. 10 : strings[k] = S

\* C10 witness: five elements have been annotated and printed, and the
\* fifth element of the collection is still the input line
C10_Witness ==
  /\ pc = "print"
  /\ pos = 5
  /\ S # <<>>
  /\ Annotated(out, 5) = S \o <<Chr(53)>>
  /\ strings[5] = S

====
